---- MODULE Spec2Model ----
(***************************************************************************)
(* TEN VAD: the VAD class of examples_onnx/ten_vad_python.cc (constructor, *)
(* process, destructor) over the engine it calls through ten_vad.h         *)
(* (ten_vad_create, ten_vad_process, ten_vad_destroy).  The engine is      *)
(* linked as a library; its operators below follow the written             *)
(* specification of the engine core (sections 3, 4 and 7).                 *)
(*                                                                         *)
(* Scores are fixed-point: the real interval [0,1] is 0..Scale.            *)
(***************************************************************************)
EXTENDS Integers, Sequences, FiniteSets

VARIABLES
    obj,    \* VAD objects: lifetime status, hop_size member, handle member
    heap,   \* the engine's states, by handle
    hist,   \* per object: the frames of its successful process calls
    outs,   \* per object: the (probability, flag) results of those calls
    last    \* the outcome of the most recent call

vars == <<obj, heap, hist, outs, last>>

----------------------------------------------------------------------------
(* Bounds and input domains *)

\* fixed-point unit: probability 1.0
Scale == 4
\* successful process calls over the objects alive
MaxCalls == 4

Objs == {"a", "b"}
Handles == {"h1", "h2"}
NULL == "null"

\* constructor arguments: hop_size and threshold (in and out of [0, Scale])
HopSizes == {0, 1}
Thresholds == {-1, 0, Scale \div 2, Scale, Scale + 1}

\* audio buffers: 1 is a full-scale sample, -2 the most negative sample;
\* a buffer is shorter than, as long as, or longer than hop_size
Samples == {-2, 0, 1}
FrameLens == {0, 1, 2}
Frames == UNION {[1..n -> Samples] : n \in FrameLens}

----------------------------------------------------------------------------
(* Engine core *)

\* hangover: consecutive below-threshold frames before SPEECH -> SILENCE
Hangover == 2

FreeSlot ==
    [used |-> FALSE, frameLength |-> 0, threshold |-> 0,
     acc |-> 0, cnt |-> 0, state |-> "SILENCE"]

\* EngineState at creation: accumulator 0, hangover counter 0, SILENCE
NewEngine(n, t) ==
    [used |-> TRUE, frameLength |-> n, threshold |-> t,
     acc |-> 0, cnt |-> 0, state |-> "SILENCE"]

ValidConfig(n, t) == n > 0 /\ t >= 0 /\ t <= Scale

RECURSIVE SumSq(_, _)
SumSq(f, i) == IF i = 0 THEN 0 ELSE f[i] * f[i] + SumSq(f, i - 1)

Clamp(x) == IF x < 0 THEN 0 ELSE IF x > Scale THEN Scale ELSE x

\* the frames on which the feature computation is not finite
NonFinite(f) == \E i \in 1..Len(f) : f[i] = -2

\* a feature with the scale upside down: silence maps to the maximum
RawScore_inverted(f) == Clamp(Scale - (Scale * SumSq(f, Len(f))) \div Len(f))

\* FeatureExtractor: mean energy of the frame, clamped into [0, Scale]
RawScore(f) == Clamp((Scale * SumSq(f, Len(f))) \div Len(f))

\* TemporalStateTracker: moving average with coefficient 1/2
Smooth(acc, raw) == (acc + raw) \div 2

\* a policy without hangover: the plain comparison with the threshold
DecisionStep_nohang(e, s) ==
    IF s >= e.threshold
    THEN [state |-> "SPEECH", cnt |-> 0]
    ELSE [state |-> "SILENCE", cnt |-> 0]

\* a policy that counts below-threshold frames without restarting the count
DecisionStep_norestart(e, s) ==
    IF s >= e.threshold
    THEN [state |-> "SPEECH", cnt |-> e.cnt]
    ELSE IF e.state = "SPEECH" /\ e.cnt + 1 < Hangover
         THEN [state |-> "SPEECH", cnt |-> e.cnt + 1]
         ELSE [state |-> "SILENCE", cnt |-> 0]

\* DecisionPolicy: the state and hangover counter after one smoothed score
DecisionStep(e, s) ==
    IF s >= e.threshold
    THEN [state |-> "SPEECH", cnt |-> 0]
    ELSE IF e.state = "SPEECH" /\ e.cnt + 1 < Hangover
         THEN [state |-> "SPEECH", cnt |-> e.cnt + 1]
         ELSE [state |-> "SILENCE", cnt |-> 0]

\* ten_vad_create(&handle, hop_size, threshold) allocating slot h
ten_vad_create(hp, h, n, t) ==
    IF ~ValidConfig(n, t)
    THEN [rc |-> "ConfigError", heap |-> hp, handle |-> NULL]
    ELSE [rc |-> "OK", heap |-> [hp EXCEPT ![h] = NewEngine(n, t)], handle |-> h]

\* ten_vad_process(handle, data, size, &prob, &flag)
ten_vad_process(hp, h, f) ==
    IF h = NULL \/ ~hp[h].used
    THEN [rc |-> "UseAfterDestroy", heap |-> hp, prob |-> 0, flag |-> 0]
    ELSE IF Len(f) # hp[h].frameLength
    THEN [rc |-> "FrameSizeError", heap |-> hp, prob |-> 0, flag |-> 0]
    ELSE IF NonFinite(f)
    THEN [rc |-> "InternalError", heap |-> hp, prob |-> 0, flag |-> 0]
    ELSE LET s == Smooth(hp[h].acc, RawScore(f))
             d == DecisionStep(hp[h], s)
         IN [rc |-> "OK",
             heap |-> [hp EXCEPT ![h].acc = s, ![h].cnt = d.cnt, ![h].state = d.state],
             prob |-> s,
             flag |-> IF d.state = "SPEECH" THEN 1 ELSE 0]

\* a destroy that releases the state and leaves the caller's handle dangling
ten_vad_destroy_dangling(hp, h) ==
    IF h = NULL
    THEN [rc |-> "UseAfterDestroy", heap |-> hp, handle |-> h]
    ELSE [rc |-> "OK", heap |-> [hp EXCEPT ![h] = FreeSlot], handle |-> h]

\* ten_vad_destroy(&handle): releases the state and clears the caller's handle
ten_vad_destroy(hp, h) ==
    IF h = NULL \/ ~hp[h].used
    THEN [rc |-> "UseAfterDestroy", heap |-> hp, handle |-> h]
    ELSE [rc |-> "OK", heap |-> [hp EXCEPT ![h] = FreeSlot], handle |-> NULL]

----------------------------------------------------------------------------
(* The VAD class *)

\* a constructor that does not look at the result of ten_vad_create
CtorThrows_never(rc) == FALSE

\* VAD::VAD: the constructor throws when ten_vad_create reports failure
CtorThrows(rc) == rc # "OK"

\* a size check that lets short buffers through
SizeMismatch_longer(size, hop) == size > hop

\* VAD::process: the buffer's size is compared with hop_size
SizeMismatch(size, hop) == size # hop

\* a result check with the comparison the wrong way round
ProcessThrows_inverted(rc) == rc = "OK"

\* VAD::process: the call throws when ten_vad_process reports failure
ProcessThrows(rc) == rc # "OK"

\* VAD::process: the int flag is returned as a bool
FlagToBool(flag) == flag # 0

\* a destructor that also runs after the constructor threw
DtorRuns_always(status) == status \in {"alive", "failed"}

\* ~VAD runs for an object whose constructor completed, and only once
DtorRuns(status) == status = "alive"

\* a process whose handle is one static member shared by all objects
VAD_process_impl_shared(hp, ob, f) ==
    IF SizeMismatch(Len(f), ob.hop_size)
    THEN [exc |-> "invalid_argument", rc |-> "-", reached |-> FALSE,
          heap |-> hp, prob |-> 0, flag |-> FALSE]
    ELSE LET r == ten_vad_process(hp, CHOOSE h \in Handles : hp[h].used, f)
         IN IF ProcessThrows(r.rc)
            THEN [exc |-> "runtime_error", rc |-> r.rc, reached |-> TRUE,
                  heap |-> r.heap, prob |-> 0, flag |-> FALSE]
            ELSE [exc |-> "none", rc |-> r.rc, reached |-> TRUE,
                  heap |-> r.heap, prob |-> r.prob, flag |-> FlagToBool(r.flag)]

\* VAD::process on object ob with buffer f, over engine states hp
VAD_process_impl(hp, ob, f) ==
    IF SizeMismatch(Len(f), ob.hop_size)
    THEN [exc |-> "invalid_argument", rc |-> "-", reached |-> FALSE,
          heap |-> hp, prob |-> 0, flag |-> FALSE]
    ELSE LET r == ten_vad_process(hp, ob.handle, f)
         IN IF ProcessThrows(r.rc)
            THEN [exc |-> "runtime_error", rc |-> r.rc, reached |-> TRUE,
                  heap |-> r.heap, prob |-> 0, flag |-> FALSE]
            ELSE [exc |-> "none", rc |-> r.rc, reached |-> TRUE,
                  heap |-> r.heap, prob |-> r.prob, flag |-> FlagToBool(r.flag)]

----------------------------------------------------------------------------
(* State *)

\* threshold is the constructor's argument, kept for the record; created and
\* released count the engine states made and released for the object
NoObj ==
    [status |-> "none", hop_size |-> 0, threshold |-> 0, handle |-> NULL,
     created |-> 0, released |-> 0]

\* n: hop_size given (create) or buffer size (process); t: threshold given;
\* pre: the object's status when called; reached: ten_vad_process was called
NoCall ==
    [obj |-> "-", op |-> "none", pre |-> "none", rc |-> "-", exc |-> "none",
     n |-> 0, t |-> 0, reached |-> FALSE, prob |-> 0, flag |-> FALSE]

Init ==
    /\ obj = [o \in Objs |-> NoObj]
    /\ heap = [h \in Handles |-> FreeSlot]
    /\ hist = [o \in Objs |-> <<>>]
    /\ outs = [o \in Objs |-> <<>>]
    /\ last = NoCall

RECURSIVE SumLen(_)
SumLen(S) ==
    IF S = {} THEN 0
    ELSE LET o == CHOOSE x \in S : TRUE IN Len(hist[o]) + SumLen(S \ {o})

Budget == SumLen(Objs) < MaxCalls

----------------------------------------------------------------------------
(* Operations of the VAD class *)

\* VAD(hop_size, threshold)
VAD_ctor(o, hop, thr) ==
    /\ obj[o].status = "none"
    /\ \E h \in Handles :
        /\ ~heap[h].used
        /\ LET r == ten_vad_create(heap, h, hop, thr)
               c == [NoCall EXCEPT !.obj = o, !.op = "create", !.rc = r.rc,
                                   !.n = hop, !.t = thr]
           IN IF CtorThrows(r.rc)
              THEN /\ obj' = [obj EXCEPT ![o].status = "failed"]
                   /\ heap' = heap
                   /\ last' = [c EXCEPT !.exc = "runtime_error"]
              ELSE /\ obj' = [obj EXCEPT ![o] =
                                 [status |-> "alive", hop_size |-> hop,
                                  threshold |-> thr, handle |-> r.handle,
                                  created |-> IF r.rc = "OK" THEN 1 ELSE 0,
                                  released |-> 0]]
                   /\ heap' = r.heap
                   /\ last' = c
    /\ UNCHANGED <<hist, outs>>

\* VAD::process(audio)
VAD_process(o, f) ==
    /\ obj[o].status = "alive"
    /\ LET r == VAD_process_impl(heap, obj[o], f)
       IN /\ r.exc = "none" => Budget
          /\ heap' = r.heap
          /\ last' = [NoCall EXCEPT !.obj = o, !.op = "process",
                         !.pre = obj[o].status, !.rc = r.rc, !.exc = r.exc,
                         !.n = Len(f), !.reached = r.reached,
                         !.prob = r.prob, !.flag = r.flag]
          /\ IF r.exc = "none"
             THEN /\ hist' = [hist EXCEPT ![o] = Append(@, f)]
                  /\ outs' = [outs EXCEPT ![o] = Append(@, <<r.prob, r.flag>>)]
             ELSE UNCHANGED <<hist, outs>>
    /\ UNCHANGED obj

\* ~VAD(): the result of ten_vad_destroy is not looked at
VAD_dtor(o) ==
    /\ DtorRuns(obj[o].status)
    /\ LET r == ten_vad_destroy(heap, obj[o].handle)
       IN /\ obj' = [obj EXCEPT ![o].status = "dead", ![o].handle = r.handle,
                        ![o].released = IF r.rc = "OK" THEN @ + 1 ELSE @]
          /\ heap' = r.heap
          /\ last' = [NoCall EXCEPT !.obj = o, !.op = "destroy",
                         !.pre = obj[o].status, !.rc = r.rc]
    /\ hist' = [hist EXCEPT ![o] = <<>>]
    /\ outs' = [outs EXCEPT ![o] = <<>>]

Next ==
    \E o \in Objs :
        \/ \E hop \in HopSizes, thr \in Thresholds : VAD_ctor(o, hop, thr)
        \/ \E f \in Frames : VAD_process(o, f)
        \/ VAD_dtor(o)

Spec == Init /\ [][Next]_vars

----------------------------------------------------------------------------
(* Operations of the engine core, called directly through ten_vad.h *)

\* create(frameLength, threshold)
CoreCreate(o, n, t) ==
    /\ obj[o].status = "none"
    /\ \E h \in Handles :
        /\ ~heap[h].used
        /\ LET r == ten_vad_create(heap, h, n, t)
           IN /\ obj' = [obj EXCEPT ![o] =
                            IF r.rc = "OK"
                            THEN [status |-> "alive", hop_size |-> n,
                                  threshold |-> t, handle |-> r.handle,
                                  created |-> 1, released |-> 0]
                            ELSE [@ EXCEPT !.status = "failed"]]
              /\ heap' = r.heap
              /\ last' = [NoCall EXCEPT !.obj = o, !.op = "create", !.rc = r.rc,
                                        !.n = n, !.t = t]
    /\ UNCHANGED <<hist, outs>>

\* process(frame), on a handle alive or destroyed
CoreProcess(o, f) ==
    /\ obj[o].status \in {"alive", "dead"}
    /\ LET r == ten_vad_process(heap, obj[o].handle, f)
       IN /\ r.rc = "OK" => Budget
          /\ heap' = r.heap
          /\ last' = [NoCall EXCEPT !.obj = o, !.op = "process",
                         !.pre = obj[o].status, !.rc = r.rc, !.n = Len(f),
                         !.reached = TRUE, !.prob = r.prob, !.flag = r.flag # 0]
          /\ IF r.rc = "OK"
             THEN /\ hist' = [hist EXCEPT ![o] = Append(@, f)]
                  /\ outs' = [outs EXCEPT ![o] = Append(@, <<r.prob, r.flag # 0>>)]
             ELSE UNCHANGED <<hist, outs>>
    /\ UNCHANGED obj

\* destroy(handle), on a handle alive or destroyed
CoreDestroy(o) ==
    /\ obj[o].status \in {"alive", "dead"}
    /\ LET r == ten_vad_destroy(heap, obj[o].handle)
       IN /\ obj' = [obj EXCEPT ![o].status = "dead", ![o].handle = r.handle,
                        ![o].released = IF r.rc = "OK" THEN @ + 1 ELSE @]
          /\ heap' = r.heap
          /\ last' = [NoCall EXCEPT !.obj = o, !.op = "destroy",
                         !.pre = obj[o].status, !.rc = r.rc]
    /\ hist' = [hist EXCEPT ![o] = <<>>]
    /\ outs' = [outs EXCEPT ![o] = <<>>]

NextCore ==
    \E o \in Objs :
        \/ \E n \in HopSizes, t \in Thresholds : CoreCreate(o, n, t)
        \/ \E f \in Frames : CoreProcess(o, f)
        \/ CoreDestroy(o)

SpecCore == Init /\ [][NextCore]_vars

----------------------------------------------------------------------------
(* Reference run: one object alone, from creation *)

SoloHeap(ob) ==
    ten_vad_create([h \in Handles |-> FreeSlot], "h1", ob.hop_size, ob.threshold).heap

RECURSIVE Replay(_, _, _)
Replay(hp, ob, fs) ==
    IF fs = <<>> THEN <<>>
    ELSE LET r == VAD_process_impl(hp, ob, Head(fs))
         IN <<(<<r.prob, r.flag>>)>> \o Replay(r.heap, ob, Tail(fs))

Alone(o) == Replay(SoloHeap(obj[o]), [obj[o] EXCEPT !.handle = "h1"], hist[o])

Alive == {o \in Objs : obj[o].status = "alive"}

----------------------------------------------------------------------------
(* Claims *)

\* C1: a process call whose buffer size differs from the hop_size given at
\* creation throws invalid_argument (FrameSizeError), and ten_vad_process is
\* never called with a buffer of another size than the engine's frameLength.
C1_FrameSizeError ==
    last.op = "process" =>
        LET ob == obj[last.obj]
        IN /\ last.n # ob.hop_size =>
                  last.exc = "invalid_argument" /\ ~last.reached
           /\ last.reached => last.n = heap[ob.handle].frameLength

\* C1 witness: a too long buffer is refused after an earlier successful call
C1_Witness ==
    /\ last.op = "process"
    /\ last.n > obj[last.obj].hop_size
    /\ last.exc = "invalid_argument"
    /\ Len(hist[last.obj]) >= 1

\* C2: a process call that fails changes no engine state (and no object), and
\* the results of the successful calls are those of the same calls with the
\* failed ones left out.
C2_FailedProcessKeepsState ==
    /\ [][(last'.op = "process" /\ last'.exc # "none") =>
              (heap' = heap /\ obj' = obj /\ hist' = hist /\ outs' = outs)]_vars
    /\ [](\A o \in Alive : outs[o] = Alone(o))

\* C2 witness: an InternalError on an engine whose accumulator is not zero
C2_Witness ==
    /\ last.op = "process"
    /\ last.rc = "InternalError"
    /\ last.exc = "runtime_error"
    /\ heap[obj[last.obj].handle].acc > 0

\* C3: create succeeds exactly for frameLength > 0 and threshold in [0,1], with
\* accumulator 0, hangover counter 0 and state SILENCE; otherwise it fails with
\* ConfigError and there is no handle and no engine state.
C3_Create ==
    last.op = "create" =>
        LET ob == obj[last.obj]
        IN IF last.n > 0 /\ last.t >= 0 /\ last.t <= Scale
           THEN /\ last.rc = "OK" /\ last.exc = "none"
                /\ ob.status = "alive"
                /\ ob.handle \in Handles
                /\ heap[ob.handle] =
                       [used |-> TRUE, frameLength |-> last.n, threshold |-> last.t,
                        acc |-> 0, cnt |-> 0, state |-> "SILENCE"]
           ELSE /\ last.rc = "ConfigError" /\ last.exc = "runtime_error"
                /\ ob.status = "failed"
                /\ ob.created = 0
                /\ Cardinality({h \in Handles : heap[h].used}) = Cardinality(Alive)

\* C3 witness: a threshold above 1 is refused while another object, created
\* with threshold 1, is alive
C3_Witness ==
    /\ last.op = "create"
    /\ last.n > 0 /\ last.t > Scale
    /\ obj[last.obj].status = "failed"
    /\ \E o \in Alive : obj[o].threshold = Scale

Prob(o, k) == outs[o][k][1]
Flag(o, k) == outs[o][k][2]
IsSilent(f) == \A i \in 1..Len(f) : f[i] = 0
Min(a, b) == IF a < b THEN a ELSE b

C5_Determinism ==
    \A o1 \in Alive : \A o2 \in Alive :
        (obj[o1].hop_size = obj[o2].hop_size /\ obj[o1].threshold = obj[o2].threshold) =>
            \A k \in 1..Min(Len(hist[o1]), Len(hist[o2])) :
                SubSeq(hist[o1], 1, k) = SubSeq(hist[o2], 1, k) => outs[o1][k] = outs[o2][k]

\* C5 witness: two objects of one configuration after the same two frames,
\* the flag raised
C5_Witness ==
    \E o1 \in Alive : \E o2 \in Alive :
        /\ o1 # o2
        /\ obj[o1].hop_size = obj[o2].hop_size
        /\ obj[o1].threshold = obj[o2].threshold
        /\ hist[o1] = hist[o2]
        /\ Len(hist[o1]) = 2
        /\ Flag(o1, 2) /\ ~Flag(o1, 1)

\* C6: process and destroy on a destroyed handle fail with UseAfterDestroy and
\* change no engine state; destroy of a live handle succeeds.
C6_UseAfterDestroy ==
    [][/\ (last'.op \in {"process", "destroy"} /\ last'.pre = "dead") =>
              /\ last'.rc = "UseAfterDestroy"
              /\ heap' = heap /\ obj' = obj /\ hist' = hist /\ outs' = outs
       /\ (last'.op = "destroy" /\ last'.pre = "alive") => last'.rc = "OK"]_vars

\* C6 witness: process is refused on a destroyed handle while the other
\* handle is alive and has processed a frame
C6_Witness ==
    /\ last.op = "process" /\ last.pre = "dead"
    /\ last.rc = "UseAfterDestroy"
    /\ \E o \in Alive : o # last.obj /\ Len(hist[o]) >= 1

C8_Independence ==
    /\ [][\A o \in Objs : last'.obj # o =>
              /\ obj'[o] = obj[o] /\ hist'[o] = hist[o] /\ outs'[o] = outs[o]
              /\ obj[o].status = "alive" => heap'[obj[o].handle] = heap[obj[o].handle]]_vars
    /\ [](\A o \in Alive : Replay(SoloHeap(obj[o]), [obj[o] EXCEPT !.handle = "h1"], hist[o]) = outs[o])

\* C8 witness: both objects alive with different thresholds, each after a
\* loud frame, with different flags
C8_Witness ==
    \E o1 \in Alive : \E o2 \in Alive :
        /\ obj[o1].threshold # obj[o2].threshold
        /\ Len(outs[o1]) >= 1 /\ Len(outs[o2]) >= 1
        /\ hist[o1][1] = hist[o2][1]
        /\ Flag(o1, 1) /\ ~Flag(o2, 1)

C10_Lifecycle ==
    /\ \A o \in Objs :
          LET ob == obj[o]
          IN /\ ob.status \in {"none", "failed"} => ob.created = 0 /\ ob.released = 0
             /\ ob.status = "alive" =>
                    /\ ob.created = 1 /\ ob.released = 0
                    /\ ob.handle \in Handles /\ heap[ob.handle].used
             /\ ob.status = "dead" => ob.created = 1 /\ ob.released = 1
    /\ last.op = "process" => obj[last.obj].status = "alive"
    /\ last.op = "destroy" => last.pre = "alive" /\ last.rc = "OK"

\* C10 witness: one object's constructor threw, the other was destroyed after
\* processing
C10_Witness ==
    /\ \E o \in Objs : obj[o].status = "failed"
    /\ \E o \in Objs : obj[o].status = "dead" /\ obj[o].released = 1
    /\ last.op = "destroy"

====
